---- MODULE Spec2Model ----
(***************************************************************************)
(* Model of the hectec web front end: the expenses page                    *)
(* (src/app/expenses/page.tsx), the side navigation (NavLinks) and the     *)
(* static site configuration (src/config/site.ts).                         *)
(*                                                                         *)
(* JavaScript values are tagged records; strings that the code inspects    *)
(* (trim, date parsing, number formatting) are sequences of one-character  *)
(* strings.  Route paths are only compared with ===, so they stay TLA+     *)
(* strings.                                                                *)
(***************************************************************************)
EXTENDS Integers, Sequences, FiniteSets, TLC

\* ------------------------------------------------------------------ bounds
MaxN == 31            \* longest fixture
MaxBadN == 3          \* longest fixture holding a date that does not parse
MaxCreate == 2        \* createNewTransaction calls per render
MaxDay == 28          \* days of the month used by the fixtures

\* ------------------------------------------------------- program constants
PAGE_SIZE == 10
NoCursor == -1        \* cursor null / undefined

\* --------------------------------------------------------------- JS values
Null == [t |-> "null"]
Undefined == [t |-> "undefined"]
Str(s) == [t |-> "string", s |-> s]
Num(n) == [t |-> "number", n |-> n]
\* a Date object; getTime() is NaN when valid is FALSE, else the day number
DateObj(valid, day) == [t |-> "date", valid |-> valid, day |-> day]

Min(a, b) == IF a < b THEN a ELSE b

Range(s) == {s[i] : i \in 1..Len(s)}

\* Array.prototype.reverse
Reverse(s) == [i \in 1..Len(s) |-> s[Len(s) + 1 - i]]

\* Array.prototype.slice(start, end) with 0-based start, exclusive end
Slice(s, start, end) == SubSeq(s, start + 1, Min(end, Len(s)))

\* property read: a key absent from the object reads as undefined
Get(r, k) == IF k \in DOMAIN r THEN r[k] ELSE Undefined

\* ------------------------------------------------------------------ strings
DigitChars == <<"0", "1", "2", "3", "4", "5", "6", "7", "8", "9">>
IsDigit(c) == c \in Range(DigitChars)
DigitVal(c) == CHOOSE n \in 0..9 : DigitChars[n + 1] = c
WhiteSpace == {" ", "\t"}
JanuaryPrefix == <<"2", "0", "2", "4", "-", "0", "1", "-">>

\* the ISO day of a date in January 2024: toISOString().split("T")[0]
IsoDay(day) == JanuaryPrefix \o <<DigitChars[(day \div 10) + 1], DigitChars[(day % 10) + 1]>>

\* new Date(value) for the values a fixture holds in its date field:
\* a date-only ISO string parses (as UTC midnight), undefined and any
\* other string give an Invalid Date.
NewDate(v) ==
  IF v.t = "string" /\ Len(v.s) = 10 /\ SubSeq(v.s, 1, 8) = JanuaryPrefix
                    /\ IsDigit(v.s[9]) /\ IsDigit(v.s[10])
                    /\ (10 * DigitVal(v.s[9]) + DigitVal(v.s[10])) \in 1..31
  THEN DateObj(TRUE, 10 * DigitVal(v.s[9]) + DigitVal(v.s[10]))
  ELSE DateObj(FALSE, 0)

RECURSIVE TrimStart(_)
TrimStart(s) ==
  IF Len(s) > 0 /\ s[1] \in WhiteSpace THEN TrimStart(Tail(s)) ELSE s

RECURSIVE TrimEnd(_)
TrimEnd(s) ==
  IF Len(s) > 0 /\ s[Len(s)] \in WhiteSpace THEN TrimEnd(SubSeq(s, 1, Len(s) - 1)) ELSE s

\* String.prototype.trim
Trim(s) == TrimEnd(TrimStart(s))

RECURSIVE Digits(_)
Digits(n) ==
  IF n < 10 THEN <<DigitChars[n + 1]>>
  ELSE Append(Digits(n \div 10), DigitChars[(n % 10) + 1])

RECURSIVE Group(_)
Group(ds) ==
  IF Len(ds) <= 3 THEN ds
  ELSE Group(SubSeq(ds, 1, Len(ds) - 3)) \o <<",">> \o SubSeq(ds, Len(ds) - 2, Len(ds))

\* Number.prototype.toLocaleString for a non-negative integer (en-US grouping)
ToLocaleString(n) == Group(Digits(n))

\* variant: strings returned untrimmed, no placeholder for null / undefined
prettyPrintNoPlaceholder(value) ==
  IF value.t = "date" THEN
    IF value.valid THEN [ok |-> TRUE, s |-> IsoDay(value.day), err |-> "none"]
    ELSE [ok |-> FALSE, s |-> <<>>, err |-> "RangeError"]
  ELSE IF value.t = "number" THEN [ok |-> TRUE, s |-> ToLocaleString(value.n), err |-> "none"]
  ELSE IF value.t = "string" THEN [ok |-> TRUE, s |-> value.s, err |-> "none"]
  ELSE [ok |-> TRUE, s |-> <<>>, err |-> "none"]

\* prettyPrint: the string it returns, or the error it throws
\* (toISOString throws a RangeError on an Invalid Date).  The values of the
\* fixtures are dates, numbers, strings, null and undefined, so the final
\* value.toString() is not reached.
prettyPrint(value) ==
  IF value.t = "date" THEN
    IF value.valid THEN [ok |-> TRUE, s |-> IsoDay(value.day), err |-> "none"]
    ELSE [ok |-> FALSE, s |-> <<>>, err |-> "RangeError"]
  ELSE IF value.t = "number" THEN [ok |-> TRUE, s |-> ToLocaleString(value.n), err |-> "none"]
  ELSE IF value.t = "string" THEN [ok |-> TRUE, s |-> Trim(value.s), err |-> "none"]
  ELSE [ok |-> TRUE, s |-> <<"-">>, err |-> "none"]

\* ------------------------------------------------------------ the fixture
FieldNames == <<"date", "details", "amount">>

\* a fixture record: a key whose value is undefined is absent from the object
Rec(dateV, detailsV, amountV) ==
  LET raw == [date |-> dateV, details |-> detailsV, amount |-> amountV]
  IN  [k \in {f \in DOMAIN raw : raw[f] # Undefined} |-> raw[k]]

DetailsPool ==
  << Str(<<"a", "b">>), Str(<<" ", "a", " ">>), Null, Str(<<>>),
     Str(<<" ", " ">>), Undefined >>
AmountPool == << Num(0), Num(42), Num(1200), Num(1234567) >>
Strides == {0, 1, 3, 14, 27}
Offsets == {0, 4}
BadDates == {Undefined, Str(<<"x">>), Str(<<>>)}

\* n records; record i dated day ((i * stride) % MaxDay) + 1, except record
\* bad (when bad > 0), whose date field is badV
Fixture(n, stride, off, bad, badV) ==
  [i \in 1..n |->
     Rec(IF i = bad THEN badV ELSE Str(IsoDay(((i * stride) % MaxDay) + 1)),
         DetailsPool[((i + off) % Len(DetailsPool)) + 1],
         AmountPool[((i + off) % Len(AmountPool)) + 1])]

Fixtures ==
  {Fixture(n, s, off, 0, Undefined) : n \in 0..MaxN, s \in Strides, off \in Offsets}
  \cup {Fixture(n[1], 1, 0, n[2], v) :
          n \in {p \in (1..MaxBadN) \X (1..MaxBadN) : p[2] <= p[1]}, v \in BadDates}

\* lines 43-47: {key, ...transaction, date: new Date(transaction.date)}
Mapped(data, i) ==
  [k \in (DOMAIN data[i]) \cup {"key", "date"} |->
     IF k = "key" THEN Num(i - 1)
     ELSE IF k = "date" THEN NewDate(Get(data[i], "date"))
     ELSE data[i][k]]

AllDatesValid(data) == \A i \in 1..Len(data) : Mapped(data, i).date.valid

\* the comparator of line 48 on two valid dates: a.date.getTime() - b.date.getTime()
Compare(data, a, b) == Mapped(data, a).date.day - Mapped(data, b).date.day

\* Array.prototype.sort is stable: insert each element after every element
\* that does not compare greater
RECURSIVE InsertSorted(_, _, _)
InsertSorted(data, sorted, x) ==
  IF Len(sorted) = 0 THEN <<x>>
  ELSE IF Compare(data, sorted[Len(sorted)], x) <= 0 THEN Append(sorted, x)
  ELSE Append(InsertSorted(data, SubSeq(sorted, 1, Len(sorted) - 1), x), sorted[Len(sorted)])

RECURSIVE SortPrefix(_, _)
SortPrefix(data, n) ==
  IF n = 0 THEN <<>> ELSE InsertSorted(data, SortPrefix(data, n - 1), n)

\* the order (as fixture indices 1..N) in which line 48 leaves the records
SortAsc(data) == SortPrefix(data, Len(data))

Orderings(n) ==
  {p \in [1..n -> 1..n] : \A i, j \in 1..n : i # j => p[i] # p[j]}

\* With an Invalid Date the comparator returns NaN and is inconsistent, so
\* the resulting order is implementation-defined: any permutation.
SortOutcomes(data) ==
  IF AllDatesValid(data) THEN {SortAsc(data)} ELSE Orderings(Len(data))

\* line 50-53: Object.keys(transactionsData[0])
Columns(data) == SelectSeq(FieldNames, LAMBDA k : k \in DOMAIN data[1])

\* the cells of the table body (lines 131-139)
Cells(data, its) ==
  {prettyPrint(Get(its[i], Columns(data)[c])) :
     i \in 1..Len(its), c \in 1..Len(Columns(data))}

\* the error a render of the page throws, if any
RenderError(data, its) ==
  IF Len(data) = 0 THEN "TypeError"
  ELSE IF \E cell \in Cells(data, its) : ~cell.ok THEN "RangeError"
  ELSE "none"

\* ------------------------------------------------------------- navigation
\* variant: two links sharing one href
linksSharedHref ==
  << [name |-> "Expenses", href |-> "/expenses"],
     [name |-> "Summary", href |-> "/expenses"],
     [name |-> "Configure", href |-> "/configure"] >>

\* NavLinks' links (href and name)
links ==
  << [name |-> "Expenses", href |-> "/expenses"],
     [name |-> "Summary", href |-> "/summary"],
     [name |-> "Configure", href |-> "/configure"] >>

\* siteConfig.navItems
navItems ==
  << [label |-> "Home", href |-> "/"],
     [label |-> "Expenses", href |-> "/expenses"],
     [label |-> "Summary", href |-> "/summary"],
     [label |-> "Configure", href |-> "/configure"] >>

\* the class tokens every link carries, and the ones of the active style
BaseClasses ==
  {"flex", "h-[48px]", "grow", "items-center", "justify-center", "gap-2",
   "rounded-md", "p-3", "text-sm", "font-medium", "hover:bg-sky-100",
   "hover:text-blue-600", "md:flex-none", "md:justify-start", "md:p-2", "md:px-3"}
ActiveClasses == {"bg-sky-100", "text-blue-600"}

\* clsx(base, {"bg-sky-100 text-blue-600": pathName === link.href})
ClassName(path, link) ==
  BaseClasses \cup (IF path = link.href THEN ActiveClasses ELSE {})

\* the route paths a visitor may be on
Paths == {"/", "/expenses", "/summary", "/configure", "/expenses/1", "/expenses/", "/Expenses"}

\* ------------------------------------------------------------------ state
VARIABLES
  pathName,                 \* usePathname()
  transactionsData,         \* the static fixture (transactions.json)
  sortOrder,                \* the order line 48 produces for the fixture
  mounted,                  \* ExpensesPage has rendered
  didDispatchInitialFetch,  \* useAsyncList's ref guarding the initial load
  page,                     \* React state
  isLoading,                \* React state
  transactions,             \* the current render's sorted copy (object ids)
  heap,                     \* the objects of the current render's copy
  listState,                \* useAsyncList: "idle" | "loadingMore"
  items,                    \* transactionsList.items
  cursor,                   \* useAsyncList's cursor
  pending,                  \* the response of a load whose await has not resumed
  error,                    \* the error a render has thrown
  loads,                    \* completed loads since the page mounted
  lastOp                    \* the last event handled

vars ==
  << pathName, transactionsData, sortOrder, mounted, didDispatchInitialFetch,
     page, isLoading, transactions, heap, listState, items, cursor, pending,
     error, loads, lastOp >>

N == Len(transactionsData)

\* Math.ceil(transactionsData.length / PAGE_SIZE)
numPages == (N + PAGE_SIZE - 1) \div PAGE_SIZE
hasMore == page < numPages

\* bottomContent is rendered (line 98)
BottomBarShown == mounted /\ error = "none" /\ hasMore /\ ~isLoading

\* variant: the numerator computed from page instead of page - 1
NumeratorByPage == Min(N, page * PAGE_SIZE)

\* the numerator of line 112
Numerator == Min(N, (page - 1) * PAGE_SIZE)

\* the objects map() creates on a render
FreshHeap(data) == [i \in 1..Len(data) |-> Mapped(data, i)]

\* variant: the page sliced from the array as it is
LoadNoReverse(tx, h, cur) ==
  LET start == IF cur = NoCursor THEN 0 ELSE cur
      ids == Slice(tx, start, start + PAGE_SIZE)
  IN  [items |-> [i \in 1..Len(ids) |-> h[ids[i]]],
       cursor |-> start + PAGE_SIZE,
       tx |-> tx]

\* variant: the cursor advanced by the number of items returned
LoadCursorByItems(tx, h, cur) ==
  LET start == IF cur = NoCursor THEN 0 ELSE cur
      rev == Reverse(tx)
      ids == Slice(rev, start, start + PAGE_SIZE)
  IN  [items |-> [i \in 1..Len(ids) |-> h[ids[i]]],
       cursor |-> start + Len(ids),
       tx |-> rev]

\* load({cursor}): the response it returns and the array it leaves reversed
Load(tx, h, cur) ==
  LET start == IF cur = NoCursor THEN 0 ELSE cur
      rev == Reverse(tx)
      ids == Slice(rev, start, start + PAGE_SIZE)
  IN  [items |-> [i \in 1..Len(ids) |-> h[ids[i]]],
       cursor |-> start + PAGE_SIZE,
       tx |-> rev]

\* a fresh ExpensesPage: useState(1), useState(true), an empty list
Unmounted ==
  /\ mounted' = FALSE
  /\ didDispatchInitialFetch' = FALSE
  /\ page' = 1
  /\ isLoading' = TRUE
  /\ transactions' = <<>>
  /\ heap' = <<>>
  /\ listState' = "idle"
  /\ items' = <<>>
  /\ cursor' = NoCursor
  /\ pending' = <<>>
  /\ error' = "none"
  /\ loads' = 0

Init ==
  /\ pathName \in Paths
  /\ transactionsData \in Fixtures
  /\ sortOrder \in SortOutcomes(transactionsData)
  /\ mounted = FALSE
  /\ didDispatchInitialFetch = FALSE
  /\ page = 1
  /\ isLoading = TRUE
  /\ transactions = <<>>
  /\ heap = <<>>
  /\ listState = "idle"
  /\ items = <<>>
  /\ cursor = NoCursor
  /\ pending = <<>>
  /\ error = "none"
  /\ loads = 0
  /\ lastOp = "init"

\* a re-render rebuilds the sorted copy from the fixture (lines 42-48) and
\* renders the table; its: the items the list holds at that render
Rerender(its) ==
  /\ transactions' = sortOrder
  /\ heap' = FreshHeap(transactionsData)
  /\ error' = RenderError(transactionsData, its)

\* following a link: the route changes and the page of the old route unmounts
Navigate(p) ==
  /\ p # pathName
  /\ pathName' = p
  /\ Unmounted
  /\ lastOp' = "navigate"
  /\ UNCHANGED <<transactionsData, sortOrder>>

\* first render of ExpensesPage (lines 35-53, 78-143); line 50 throws a
\* TypeError on an empty fixture
Mount ==
  /\ pathName = "/expenses"
  /\ ~mounted
  /\ error = "none"
  /\ Rerender(items)
  /\ mounted' = (Len(transactionsData) > 0)
  /\ lastOp' = "mount"
  /\ UNCHANGED <<pathName, transactionsData, sortOrder, didDispatchInitialFetch,
                 page, isLoading, listState, items, cursor, pending, loads>>

\* useAsyncList's mount effect: dispatchFetch({type: "loading"}, load).  The
\* effect's updates are not rendered before the awaited response is
\* dispatched, so the next render sees the first page.
InitialLoad ==
  /\ mounted
  /\ error = "none"
  /\ ~didDispatchInitialFetch
  /\ LET r == Load(transactions, heap, NoCursor)
     IN  /\ items' = r.items
         /\ cursor' = r.cursor
         /\ Rerender(r.items)
  /\ didDispatchInitialFetch' = TRUE
  /\ page' = page + 1
  /\ isLoading' = FALSE
  /\ listState' = "idle"
  /\ loads' = loads + 1
  /\ lastOp' = "initialLoad"
  /\ UNCHANGED <<pathName, transactionsData, sortOrder, mounted, pending>>

\* pressing Load More: loadMore() -> dispatchFetch({type: "loadingMore"}, load)
\* runs load up to its return; the press is a discrete event, so the page
\* re-renders before the awaited response is dispatched.
PressLoadMore ==
  /\ BottomBarShown
  /\ listState = "idle"
  /\ cursor # NoCursor
  /\ LET r == Load(transactions, heap, cursor)
     IN  pending' = <<[items |-> r.items, cursor |-> r.cursor]>>
  /\ page' = page + 1
  /\ isLoading' = FALSE
  /\ listState' = "loadingMore"
  /\ Rerender(items)
  /\ lastOp' = "loadMore"
  /\ UNCHANGED <<pathName, transactionsData, sortOrder, mounted,
                 didDispatchInitialFetch, items, cursor, loads>>

\* the continuation of dispatchFetch: dispatch({type: "success", ...response})
LoadMoreSuccess ==
  /\ mounted
  /\ error = "none"
  /\ listState = "loadingMore"
  /\ items' = items \o pending[1].items
  /\ cursor' = pending[1].cursor
  /\ pending' = <<>>
  /\ listState' = "idle"
  /\ loads' = loads + 1
  /\ Rerender(items \o pending[1].items)
  /\ lastOp' = "loadMoreSuccess"
  /\ UNCHANGED <<pathName, transactionsData, sortOrder, mounted,
                 didDispatchInitialFetch, page, isLoading>>

\* variant: an add button that appends a row to the table
PressAddAppends ==
  /\ mounted
  /\ error = "none"
  /\ Len(items) > 0
  /\ items' = Append(items, items[1])
  /\ lastOp' = "add"
  /\ UNCHANGED <<pathName, transactionsData, sortOrder, mounted,
                 didDispatchInitialFetch, page, isLoading, transactions, heap,
                 listState, cursor, pending, error, loads>>

\* the add button (lines 81-84) has no onPress
PressAdd ==
  /\ mounted
  /\ error = "none"
  /\ lastOp' = "add"
  /\ UNCHANGED <<pathName, transactionsData, sortOrder, mounted,
                 didDispatchInitialFetch, page, isLoading, transactions, heap,
                 listState, items, cursor, pending, error, loads>>

\* the delete button (lines 85-88) has no onPress
PressDelete ==
  /\ mounted
  /\ error = "none"
  /\ lastOp' = "delete"
  /\ UNCHANGED <<pathName, transactionsData, sortOrder, mounted,
                 didDispatchInitialFetch, page, isLoading, transactions, heap,
                 listState, items, cursor, pending, error, loads>>

\* createNewTransaction (lines 68-76).  newTransaction is the last object of
\* the copy itself, not a copy of it; line 75 reverses the array and then
\* throws a ReferenceError (start is not in scope), so transactionsList.items
\* is not assigned and nothing re-renders.
CreateNewTransaction ==
  /\ mounted
  /\ error = "none"
  /\ didDispatchInitialFetch
  /\ Len(transactions) < N + MaxCreate
  /\ LET length == Len(transactions)
         obj == transactions[length]
         blank == [heap EXCEPT ![obj] = [k \in DOMAIN heap[obj] |-> Str(<<>>)]]
         keyed == [blank EXCEPT ![obj].key = Num(length)]
         dated == [keyed EXCEPT ![obj].date = keyed[transactions[1]].date]
     IN  /\ heap' = dated
         /\ transactions' = Reverse(Append(transactions, obj))
  /\ lastOp' = "create"
  /\ UNCHANGED <<pathName, transactionsData, sortOrder, mounted,
                 didDispatchInitialFetch, page, isLoading, listState, items,
                 cursor, pending, error, loads>>

Next ==
  \/ \E p \in Paths : Navigate(p)
  \/ Mount
  \/ InitialLoad
  \/ PressLoadMore
  \/ LoadMoreSuccess
  \/ PressAdd
  \/ PressDelete

Spec == Init /\ [][Next]_vars

\* the page with createNewTransaction wired to a caller
NextAPI == Next \/ CreateNewTransaction

SpecAPI == Init /\ [][NextAPI]_vars

\* ------------------------------------------------------------- properties
Settled == mounted /\ error = "none" /\ listState = "idle" /\ loads >= 1

KeysDistinct(recs) ==
  \A i, j \in 1..Len(recs) : i # j => recs[i].key # recs[j].key

IsPrefix(s, t) == Len(s) <= Len(t) /\ SubSeq(t, 1, Len(s)) = s

\* C1: after k completed loads the table holds min(k * PAGE_SIZE, N) records
\* of the fixture, each at most once, in date-descending order, and no
\* record left out is dated later than a record shown.
C1_PagesDescending ==
  (Settled /\ AllDatesValid(transactionsData)) =>
    /\ Len(items) = Min(loads * PAGE_SIZE, N)
    /\ KeysDistinct(items)
    /\ \A i \in 1..Len(items) :
         /\ items[i].key.n \in 0..(N - 1)
         /\ items[i] = Mapped(transactionsData, items[i].key.n + 1)
    /\ \A i, j \in 1..Len(items) : i < j => items[i].date.day >= items[j].date.day
    /\ \A r \in 1..N :
         (\A i \in 1..Len(items) : items[i].key.n # r - 1) =>
           \A i \in 1..Len(items) :
             Mapped(transactionsData, r).date.day <= items[i].date.day

C1_Witness ==
  /\ Settled
  /\ loads = 3
  /\ Len(items) = 3 * PAGE_SIZE
  /\ items[1].date.day > items[Len(items)].date.day
  /\ \E i, j \in 1..N :
       i < j /\ Mapped(transactionsData, i).date.day < Mapped(transactionsData, j).date.day

\* C2 as stated: after every completed load the cursor equals the number of
\* items the table holds.
C2_CursorEqualsItems == Settled => cursor = Len(items)

\* C2 as amended: after every completed load the cursor is PAGE_SIZE times
\* the number of completed loads; it is never less than the number of items
\* held and equals it exactly when that many records exist.
C2_CursorCountsPages ==
  Settled =>
    /\ cursor = PAGE_SIZE * loads
    /\ cursor >= Len(items)
    /\ (cursor = Len(items)) <=> (PAGE_SIZE * loads <= N)

C2_Witness == Settled /\ N % PAGE_SIZE # 0 /\ cursor > Len(items) /\ Len(items) = N

\* C3 as stated: no operation changes a field of a record that exists in the
\* sorted copy or has been revealed to the table.  (A re-render builds new
\* objects; the operations that do not re-render must leave the objects of
\* the copy as they are.)
C3_RecordsImmutable ==
  [][ /\ (lastOp' \in {"create", "add", "delete"} =>
            \A o \in DOMAIN heap : heap'[o] = heap[o])
      /\ (mounted /\ mounted' => IsPrefix(items, items')) ]_vars

\* C4: no event changes the fixture; the add and delete buttons leave page,
\* isLoading, the cursor and the items unchanged; the items change only when
\* a load completes, and then only by appending.
C4_NoWritePath ==
  [][ /\ transactionsData' = transactionsData
      /\ (lastOp' \in {"add", "delete"} =>
            UNCHANGED <<page, isLoading, cursor, items>>)
      /\ (mounted /\ mounted' /\ items' # items =>
            /\ lastOp' \in {"initialLoad", "loadMoreSuccess"}
            /\ IsPrefix(items, items')) ]_vars

C4_Witness == lastOp = "add" /\ Len(items) = 2 * PAGE_SIZE /\ BottomBarShown

\* C5 as stated: building the columns and the copy, loading and formatting
\* never raise an error.
C5_NoFailure == error = "none"

\* the values the table body passes to prettyPrint
TableValues ==
  {Get(items[i], Columns(transactionsData)[c]) :
     i \in 1..Len(items), c \in 1..Len(Columns(transactionsData))}

IsBlank(v) ==
  \/ v \in {Null, Undefined}
  \/ v.t = "string" /\ \A i \in 1..Len(v.s) : v.s[i] \in WhiteSpace

\* out is s without its leading and trailing white space
IsTrimOf(out, s) ==
  /\ Len(out) > 0 => out[1] \notin WhiteSpace /\ out[Len(out)] \notin WhiteSpace
  /\ \E a \in 0..Len(s) : \E b \in 0..(Len(s) - a) :
       /\ SubSeq(s, a + 1, Len(s) - b) = out
       /\ \A i \in 1..a : s[i] \in WhiteSpace
       /\ \A i \in (Len(s) - b + 1)..Len(s) : s[i] \in WhiteSpace

\* C6 as stated: every blank value (null, undefined, empty or white-space
\* string) is rendered as "-", every other string trimmed.
C6_BlanksAsPlaceholder ==
  mounted =>
    \A v \in TableValues :
      /\ IsBlank(v) => prettyPrint(v).s = <<"-">>
      /\ (v.t = "string" /\ ~IsBlank(v)) => IsTrimOf(prettyPrint(v).s, v.s)

\* C6 as amended: null and undefined are rendered as "-"; every string, blank
\* or not, is rendered without its leading and trailing white space, so an
\* empty or white-space-only string is rendered as the empty string.
C6_NullAsPlaceholder ==
  mounted =>
    \A v \in TableValues :
      /\ v \in {Null, Undefined} => prettyPrint(v).s = <<"-">>
      /\ v.t = "string" => IsTrimOf(prettyPrint(v).s, v.s)
      /\ (v.t = "string" /\ IsBlank(v)) => prettyPrint(v).s = <<>>

C6_Witness ==
  /\ mounted
  /\ {Null, Undefined, Str(<<>>), Str(<<" ", " ">>), Str(<<" ", "a", " ">>)} \subseteq TableValues

\* C7 as stated: the records of the sorted copy and the items of the table
\* have pairwise distinct keys.
C7_KeysUnique ==
  mounted =>
    /\ KeysDistinct([i \in 1..Len(transactions) |-> heap[transactions[i]]])
    /\ KeysDistinct(items)

\* C8 as stated: whenever no load is in progress and the table holds fewer
\* than N items, Load More is offered.
C8_LoadMoreOffered ==
  (mounted /\ error = "none" /\ ~isLoading /\ listState = "idle" /\ Len(items) < N)
    => BottomBarShown

\* C9 as stated: whenever the bottom bar is displayed the numerator equals
\* the number of items held and page is the number of completed loads plus one.
C9_CounterMatches ==
  BottomBarShown => Numerator = Len(items) /\ page = loads + 1

\* C9 as amended: the same, whenever the bottom bar is displayed and no load
\* is in flight.
C9_CounterMatchesWhenIdle ==
  (BottomBarShown /\ listState = "idle") =>
    Numerator = Len(items) /\ page = loads + 1

C9_Witness == BottomBarShown /\ listState = "idle" /\ loads = 2 /\ Len(items) = 20

\* the links that carry the active style on the current path
ActiveLinks ==
  {i \in 1..Len(links) : ActiveClasses \subseteq ClassName(pathName, links[i])}

\* C10: a link is styled active exactly when its href is the current path;
\* at most one link is active, none on "/" or on a sub-path, and every href
\* of NavLinks is an href of siteConfig.navItems.
C10_ActiveLinkFollowsRoute ==
  /\ \A i \in 1..Len(links) : i \in ActiveLinks <=> links[i].href = pathName
  /\ Cardinality(ActiveLinks) <= 1
  /\ pathName \in {"/", "/expenses/1"} => ActiveLinks = {}
  /\ \A i \in 1..Len(links) : links[i].href \in {navItems[j].href : j \in 1..Len(navItems)}

C10_Witness == pathName = "/expenses" /\ lastOp = "navigate" /\ ActiveLinks = {1}

====
